---- MODULE Spec2Model ----
(***************************************************************************)
(* Model of the JSON Question-Answer Validator & Fixer.                    *)
(*   src/chatbot_setup.py  field mapping, call_openai, validate_record,    *)
(*                         gpt_translate_text, process_records_parallel    *)
(*   src/app.py            the Streamlit script and its session state      *)
(*                                                                         *)
(* Python values are records [kind, s, items]: kind is the Python type,    *)
(* s the text of a scalar, items the ordered items of a dict.  A dict is a *)
(* sequence of items [k, v] with distinct keys, in insertion order.        *)
(***************************************************************************)
EXTENDS Integers, Sequences, FiniteSets, TLC

VARIABLES
    \* validate_record called on its own
    v_rec,              \* the record passed in
    v_api,              \* what the chat-completion call does
    v_out,              \* NotCalled, or what the call produced
    \* gpt_translate_text called on its own
    t_rec,              \* text_record
    t_apis,             \* what the chat-completion call for each item does
    t_out,              \* NotCalled, or what the call produced
    \* map_record_fields called on its own
    m_rec,              \* record
    m_out,              \* NotCalled, or what the call produced
    \* one record on its way through validation and translation
    heap,               \* the dict objects: name -> items
    \* import of chatbot_setup
    key_check,          \* what client.models.list() did in the key check
    \* process_records_parallel
    pp,                 \* position of the calling thread in the function
    p_records,          \* records
    max_workers,        \* max_workers
    fut,                \* state of each submitted future, in submission order
    task_api,           \* what the chat-completion call of each task did
    task_res,           \* what validate_record produced in each task
    results,            \* results
    yielded,            \* the futures as_completed has handed out
    cursor,             \* position of the cancel loop in futures
    nthreads,           \* worker threads the executor has spawned
    idle_sem,           \* the executor's idle semaphore
    p_exc,              \* the exception on its way to the caller
    \* the Streamlit session
    uploaded,           \* the file held by the uploader widget
    session_state,      \* st.session_state
    phase,              \* where the script run is
    processed,          \* processed (local of the Start Processing handler)
    batch_i,            \* i of the batch loop
    processed_en,       \* processed_en (local of the translation phase)
    tr_i,               \* index of the record being translated
    tr_k,               \* index of the item of that record being translated
    translated_record,  \* translated_record of the gpt_translate_text call
    shown,              \* what the results section of the last run displayed
    \* history
    call,               \* the model call the last step started, if any
    halted              \* session state saved by the latest quota halt

tvars == <<t_rec, t_apis, t_out>>
mvars == <<m_rec, m_out>>
\* (vvars: what the steps of the batch runner and of the session leave alone)
vvars == <<v_rec, v_api, v_out, tvars, mvars, key_check, heap>>
pvars == <<pp, p_records, max_workers, fut, task_api, task_res, results,
           yielded, cursor, nthreads, idle_sem, p_exc>>
avars == <<uploaded, session_state, phase, processed, batch_i, processed_en,
           tr_i, tr_k, translated_record, shown, halted>>
vars == <<vvars, pvars, avars, call>>

-----------------------------------------------------------------------------
(* Python values *)

Str(t) == [kind |-> "str", s |-> t, items |-> <<>>]
Num(t) == [kind |-> "int", s |-> t, items |-> <<>>]
Bool(b) == [kind |-> "bool", s |-> IF b THEN "True" ELSE "False", items |-> <<>>]
Dict(its) == [kind |-> "dict", s |-> "", items |-> its]
List(elems) == [kind |-> "list", s |-> "", items |-> elems]
PyNone == [kind |-> "none", s |-> "", items |-> <<>>]
PyTrue == Bool(TRUE)
PyFalse == Bool(FALSE)

Item(key, val) == [k |-> key, v |-> val]

\* Python truthiness: bool(v)
Truthy(v) ==
    CASE v.kind = "str" -> v.s # ""
      [] v.kind = "int" -> v.s # "0"
      [] v.kind = "bool" -> v.s = "True"
      [] v.kind \in {"dict", "list"} -> v.items # <<>>
      [] OTHER -> FALSE

\* isinstance(v, str), isinstance(v, dict)
IsStr(v) == v.kind = "str"
IsDict(v) == v.kind = "dict"

(* dict operations on item sequences *)
Keys(d) == {d[i].k : i \in 1..Len(d)}
Has(d, key) == key \in Keys(d)
IndexOf(d, key) == CHOOSE i \in 1..Len(d) : d[i].k = key
\* d.get(key, default)
Get(d, key, default) == IF Has(d, key) THEN d[IndexOf(d, key)].v ELSE default
\* d[key] = val: an existing key keeps its position, a new key is appended
Put(d, key, val) ==
    IF Has(d, key)
    THEN [d EXCEPT ![IndexOf(d, key)] = Item(key, val)]
    ELSE Append(d, Item(key, val))

-----------------------------------------------------------------------------
(* Field Mapper *)

CanonicalFields ==
    {"question", "discipline", "language", "grade", "explanation",
     "competition_name", "competition_year", "question_number",
     "difficulty", "question_type", "answer"}

\* KEY_MAPS["English"]
KEY_MAPS_English ==
    [f \in CanonicalFields |->
        CASE f = "question" -> "Question"
          [] f = "discipline" -> "Discipline"
          [] f = "language" -> "Language"
          [] f = "grade" -> "Grade"
          [] f = "explanation" -> "Explanation"
          [] f = "competition_name" -> "Competition Name"
          [] f = "competition_year" -> "Competition Year"
          [] f = "question_number" -> "Question Number"
          [] f = "difficulty" -> "Difficulty"
          [] f = "question_type" -> "Question Type"
          [] OTHER -> "Answer"]

\* FALLBACK_KEYS: for each field the English label and its lower-case form
FALLBACK_KEYS ==
    [f \in CanonicalFields |->
        CASE f = "question" -> <<"Question", "question">>
          [] f = "answer" -> <<"Answer", "answer">>
          [] f = "question_type" -> <<"Question Type", "question type">>
          [] f = "language" -> <<"Language", "language">>
          [] f = "discipline" -> <<"Discipline", "discipline">>
          [] f = "grade" -> <<"Grade", "grade">>
          [] f = "explanation" -> <<"Explanation", "explanation">>
          [] f = "competition_name" -> <<"Competition Name", "competition name">>
          [] f = "competition_year" -> <<"Competition Year", "competition year">>
          [] f = "question_number" -> <<"Question Number", "question number">>
          [] OTHER -> <<"Difficulty", "difficulty">>]

\* normalize_key: NFKC(key.strip().lower()), tabulated on the keys the model
\* uses; every other key of the model is already trimmed, lower-case ASCII.
normalize_key(key) ==
    CASE key = "Question" -> "question"
      [] key = "Answer" -> "answer"
      [] key = " ANSWER " -> "answer"
      [] key = "Explanation" -> "explanation"
      [] key = "Language" -> "language"
      [] key = "Discipline" -> "discipline"
      [] key = "Grade" -> "grade"
      [] key = "Difficulty" -> "difficulty"
      [] key = "Question Type" -> "question type"
      [] key = "Question Number" -> "question number"
      [] key = "Competition Name" -> "competition name"
      [] key = "Competition Year" -> "competition year"
      [] key = "Pregunta" -> "pregunta"
      [] OTHER -> key

\* {normalize_key(k): v for k, v in record.items()} as a lookup: of the items
\* whose keys normalize alike, the last one's value is kept.
NormHas(record, nkey) == \E i \in 1..Len(record) : normalize_key(record[i].k) = nkey
NormLast(record, nkey) ==
    CHOOSE i \in 1..Len(record) :
        /\ normalize_key(record[i].k) = nkey
        /\ \A j \in (i+1)..Len(record) : normalize_key(record[j].k) # nkey
NormGet(record, nkey, default) ==
    IF NormHas(record, nkey) THEN record[NormLast(record, nkey)].v ELSE default

\* a key map that follows the record's language
get_key_map_by_language(language) ==
    IF language = Str("Spanish")
    THEN [KEY_MAPS_English EXCEPT !["answer"] = "Respuesta",
                                  !["explanation"] = "Explicacion"]
    ELSE KEY_MAPS_English

\* get_key_map_for_language: the English map, whatever the language
get_key_map_for_language(language) == KEY_MAPS_English

\* the inner loop of map_record_fields: the first fallback spelling present
RECURSIVE FallbackValue(_, _, _, _)
FallbackValue(record, alts, i, val) ==
    IF i > Len(alts) THEN val
    ELSE IF NormHas(record, normalize_key(alts[i]))
         THEN NormGet(record, normalize_key(alts[i]), val)
         ELSE FallbackValue(record, alts, i + 1, val)

\* a mapper that looks the label up as it is spelled in the key map
map_record_fields_exact(record, key_map) ==
    [f \in DOMAIN key_map |-> Get(record, key_map[f], Str(""))]

map_record_fields(record, key_map) ==
    [f \in DOMAIN key_map |->
        LET val == NormGet(record, normalize_key(key_map[f]), Str(""))
        IN  IF ~Truthy(val) THEN FallbackValue(record, FALLBACK_KEYS[f], 1, val)
            ELSE val]

\* the language scan at the head of validate_record
RECURSIVE DetectLanguage(_, _, _)
DetectLanguage(record, alts, i) ==
    IF i > Len(alts) THEN Str("English")
    ELSE IF NormHas(record, normalize_key(alts[i]))
         THEN NormGet(record, normalize_key(alts[i]), PyNone)
         ELSE DetectLanguage(record, alts, i + 1)

-----------------------------------------------------------------------------
(* Startup credential check *)

\* what client.models.list() does: a response, an empty (falsy) response, an
\* authentication error, any other exception
ModelsListOutcomes == {"response", "empty", "auth", "error"}

\* a key check that lets exceptions other than authentication errors pass
check_api_key_validity_lenient(outcome) ==
    CASE outcome = "response" -> PyTrue
      [] outcome = "auth" -> PyFalse
      [] outcome = "error" -> PyTrue
      [] OTHER -> PyNone

\* check_api_key_validity: True on a truthy response, False on an exception,
\* and None (no return statement is reached) on a falsy response
check_api_key_validity(outcome) ==
    CASE outcome = "response" -> PyTrue
      [] outcome = "auth" -> PyFalse
      [] outcome = "error" -> PyFalse
      [] OTHER -> PyNone

\* chatbot_setup was imported: its functions can be called
Imported == key_check = "response"

-----------------------------------------------------------------------------
(* Call results: a returned value or a raised exception *)

Return(val) == [kind |-> "return", val |-> val]
\* raise exc(msg): str(e) is msg
Raise(exc, msg) == [kind |-> "raise", val |-> Str(exc), msg |-> msg]
NoException == [kind |-> "none", val |-> PyNone, msg |-> ""]
Returned(r) == r.kind = "return"
Raised(r, exc) == r.kind = "raise" /\ r.val = Str(exc)

-----------------------------------------------------------------------------
(* Prompt Builder *)

\* str.lower() on the question types the model uses
Lower(t) ==
    CASE t = "Short" -> "short"
      [] t = "MCQ" -> "mcq"
      [] OTHER -> t

\* get_system_prompt: the clause appended to the base instruction; .lower()
\* on a value that is no string raises AttributeError
get_system_prompt(question_type) ==
    IF ~IsStr(question_type)
    THEN Raise("AttributeError", "object has no attribute 'lower'")
    ELSE LET qt == Lower(question_type.s)
         IN  Return(Str(
               CASE qt \in {"explanation", "exp"} -> "detailed explanation"
                 [] qt \in {"short answer", "short"} -> "concise"
                 [] qt \in {"multiple choice", "mcq"} -> "one of the options"
                 [] qt \in {"true/false", "truefalse"} -> "True or False"
                 [] OTHER -> "unspecified"))

-----------------------------------------------------------------------------
(* Model Client: validation call *)

\* A response text: prose around the payload or not, the payload's syntax
\* ("json" strict, "json5" lenient only, "none" no payload) and the value the
\* payload denotes.
Text(prose, syntax, val) == [prose |-> prose, syntax |-> syntax, val |-> val]

\* s.find("{") and s.rfind("}") find a pair only around an object payload
HasBraces(text) == text.syntax # "none" /\ IsDict(text.val)

\* extract_json_substring: the text from the first "{" to the last "}", or
\* the whole text when there is no such pair
extract_json_substring(text) ==
    IF HasBraces(text) THEN Text(FALSE, text.syntax, text.val) ELSE text

\* json.loads, and json5.loads as the fallback on JSONDecodeError
json_loads(text) ==
    IF ~text.prose /\ text.syntax = "json" THEN Return(text.val)
    ELSE Raise("JSONDecodeError", "Expecting value")
json5_loads(text) ==
    IF ~text.prose /\ text.syntax \in {"json", "json5"} THEN Return(text.val)
    ELSE Raise("ValueError", "Unexpected token")
ParseResponse(text) ==
    LET json_text == extract_json_substring(text)
    IN  IF Returned(json_loads(json_text)) THEN json_loads(json_text)
        ELSE json5_loads(json_text)

\* 'insufficient_quota' in error_msg.lower() or 'quota' in error_msg.lower()
MentionsQuota(msg) ==
    msg \in {"insufficient_quota", "You exceeded your current quota",
             "QUOTA limit reached"}

Degraded(reason) ==
    Dict(<<Item("valid", PyFalse), Item("reason", Str(reason)),
           Item("corrected_answer", PyNone)>>)

\* the try block of call_openai: the request and the parsing of its answer
CallOpenAIBody(api) ==
    CASE api.kind = "ok" ->
            IF Returned(ParseResponse(api.content)) THEN ParseResponse(api.content)
            ELSE Return(Degraded("OpenAI API error: " \o ParseResponse(api.content).msg))
      [] api.kind = "ok_none" ->
            Return(Degraded("OpenAI API error: " \o "NoneType has no find"))
      [] api.kind = "rate_limit" ->
            IF MentionsQuota(api.msg)
            THEN Raise("QuotaExceededException", "OpenAI API quota exceeded: " \o api.msg)
            ELSE Return(Degraded("Rate limit error: " \o api.msg))
      [] api.kind = "auth" ->
            Return(Degraded("Authentication error: " \o api.msg))
      [] OTHER ->
            Return(Degraded("OpenAI API error: " \o api.msg))

\* call_openai: the prompt is built before the try block
call_openai(question, answer, question_type, api) ==
    IF ~Returned(get_system_prompt(question_type))
    THEN get_system_prompt(question_type)
    ELSE CallOpenAIBody(api)

RecordQuestionType(record) == map_record_fields(record, KEY_MAPS_English)["question_type"]

\* whether call_openai sends a chat-completion request
MakesModelCall(question_type) == Returned(get_system_prompt(question_type))

-----------------------------------------------------------------------------
(* Validator *)

StatusCorrect == Str("Answer is correct.")
StatusCorrected == Str("Answer corrected by AI.")
StatusExplOk == Str("Explanation is already correct.")

\* ValidBranch with the answer overwrite of the else branch leaking into it
ValidBranchOverwritesAnswer(new_rec, result) ==
    Put(Put(IF Truthy(Get(result, "corrected_answer", PyNone))
            THEN Put(new_rec, "Answer", Get(result, "corrected_answer", PyNone))
            ELSE new_rec,
            "_validation",
            Dict(<<Item("valid", PyTrue),
                   Item("reason", Get(result, "reason", PyNone))>>)),
        "explanation_status", StatusCorrect)

\* a valid branch that also sets "corrected"
ValidBranchMarksCorrected(new_rec, result) ==
    Put(Put(new_rec, "_validation",
            Dict(<<Item("valid", PyTrue),
                   Item("reason", Get(result, "reason", PyNone)),
                   Item("corrected", PyTrue)>>)),
        "explanation_status", StatusCorrect)

\* the branch taken when result.get("valid", False) is truthy
ValidBranch(new_rec, result) ==
    Put(Put(new_rec, "_validation",
            Dict(<<Item("valid", PyTrue),
                   Item("reason", Get(result, "reason", PyNone))>>)),
        "explanation_status", StatusCorrect)

\* if result.get("corrected_answer"): overwrite the answer, set the status
CorrectAnswer(new_rec, key_map, result) ==
    IF Truthy(Get(result, "corrected_answer", PyNone))
    THEN Put(Put(new_rec, key_map["answer"], Get(result, "corrected_answer", PyNone)),
             "explanation_status", StatusCorrected)
    ELSE new_rec

\* if result.get("corrected_explanation"): overwrite the explanation;
\* else: set the status "Explanation is already correct."
CorrectExplanation(new_rec, key_map, result) ==
    IF Truthy(Get(result, "corrected_explanation", PyNone))
    THEN Put(new_rec, key_map["explanation"], Get(result, "corrected_explanation", PyNone))
    ELSE Put(new_rec, "explanation_status", StatusExplOk)

\* an else branch in which the explanation is dealt with only inside the
\* corrected_answer branch
InvalidBranchNested(new_rec, key_map, result) ==
    Put(IF Truthy(Get(result, "corrected_answer", PyNone))
        THEN CorrectExplanation(CorrectAnswer(new_rec, key_map, result), key_map, result)
        ELSE new_rec,
        "_validation",
        Dict(<<Item("valid", PyFalse),
               Item("reason", Get(result, "reason", PyNone)),
               Item("corrected", PyTrue)>>))

\* an else branch that sets "corrected" only when a correction was written
InvalidBranchCorrectedIfWritten(new_rec, key_map, result) ==
    Put(CorrectExplanation(CorrectAnswer(new_rec, key_map, result), key_map, result),
        "_validation",
        Dict(<<Item("valid", PyFalse),
               Item("reason", Get(result, "reason", PyNone)),
               Item("corrected",
                    Bool(Truthy(Get(result, "corrected_answer", PyNone))
                         \/ Truthy(Get(result, "corrected_explanation", PyNone))))>>))

\* the else branch of validate_record
InvalidBranch(new_rec, key_map, result) ==
    Put(CorrectExplanation(CorrectAnswer(new_rec, key_map, result), key_map, result),
        "_validation",
        Dict(<<Item("valid", PyFalse),
               Item("reason", Get(result, "reason", PyNone)),
               Item("corrected", PyTrue)>>))

\* the outcome call_openai hands to validate_record for this record
OutcomeOf(record, api) ==
    LET key_map == get_key_map_for_language(
                       DetectLanguage(record, FALLBACK_KEYS["language"], 1))
        mapped == map_record_fields(record, key_map)
    IN  call_openai(mapped["question"], mapped["answer"], mapped["question_type"], api)

\* validate_record: result.get on a value that is no dict raises
\* AttributeError; only QuotaExceededException is caught (and re-raised)
validate_record(record, api) ==
    LET key_map == get_key_map_for_language(
                       DetectLanguage(record, FALLBACK_KEYS["language"], 1))
        outcome == OutcomeOf(record, api)
    IN  IF ~Returned(outcome) THEN outcome
        ELSE IF ~IsDict(outcome.val)
             THEN Raise("AttributeError", "object has no attribute 'get'")
        ELSE IF Truthy(Get(outcome.val.items, "valid", PyFalse))
             THEN Return(Dict(ValidBranch(record, outcome.val.items)))
             ELSE Return(Dict(InvalidBranch(record, key_map, outcome.val.items)))

-----------------------------------------------------------------------------
(* Inputs of validate_record: records and chat-completion behaviours *)

QuestionPart == <<Item("Question", Str("2+2?"))>>
AnswerParts ==
    {<<>>,
     <<Item("Answer", Str("5"))>>,
     <<Item("answer", Str("5"))>>,
     <<Item(" ANSWER ", Str("5"))>>,
     <<Item("Answer", Str("4"))>>,
     <<Item("Answer", PyNone)>>,
     <<Item("Answer", Str("5")), Item("answer", Str("7"))>>}
TypeParts ==
    {<<>>,
     <<Item("Question Type", Str("short"))>>,
     <<Item("Question Type", Str("MCQ"))>>,
     <<Item("Question Type", Num("3"))>>,
     <<Item("question type", PyNone)>>}
ExplanationParts ==
    {<<>>,
     <<Item("Explanation", Str("5 because 2+3"))>>,
     <<Item("explanation", Str("5 because 2+3"))>>}
LanguageParts == {<<>>, <<Item("Language", Str("Spanish"))>>}
ExtraParts ==
    {<<>>,
     <<Item("Note", Num("7"))>>,
     <<Item("explanation_status", Str("old status"))>>,
     <<Item("_validation", Dict(<<Item("valid", PyTrue)>>))>>}

VRecords ==
    {QuestionPart \o a \o t \o e \o l \o x :
        a \in AnswerParts, t \in TypeParts, e \in ExplanationParts,
        l \in LanguageParts, x \in ExtraParts}

\* the JSON objects the model may answer with
ValidParts == {<<>>, <<Item("valid", PyTrue)>>, <<Item("valid", PyFalse)>>}
CorrectedAnswerParts ==
    {<<>>,
     <<Item("corrected_answer", PyNone)>>,
     <<Item("corrected_answer", Str(""))>>,
     <<Item("corrected_answer", Str("4"))>>,
     <<Item("corrected_answer", Str("5"))>>}
CorrectedExplanationParts ==
    {<<>>,
     <<Item("corrected_explanation", PyNone)>>,
     <<Item("corrected_explanation", Str("4 because 2+2"))>>}
OutcomeDicts ==
    {v \o <<Item("reason", Str("graded"))>> \o a \o e :
        v \in ValidParts, a \in CorrectedAnswerParts, e \in CorrectedExplanationParts}

SampleOutcome ==
    <<Item("valid", PyFalse), Item("reason", Str("graded")),
      Item("corrected_answer", Str("4"))>>

VApis ==
    {[kind |-> "ok", content |-> Text(FALSE, "json", Dict(d))] : d \in OutcomeDicts}
    \cup {[kind |-> "ok", content |-> Text(TRUE, "json", Dict(SampleOutcome))],
          [kind |-> "ok", content |-> Text(TRUE, "json5", Dict(SampleOutcome))],
          [kind |-> "ok", content |-> Text(FALSE, "none", PyNone)],
          [kind |-> "ok", content |-> Text(TRUE, "none", PyNone)],
          [kind |-> "ok", content |-> Text(FALSE, "json", Num("42"))],
          [kind |-> "ok", content |-> Text(TRUE, "json", Num("42"))],
          [kind |-> "ok", content |-> Text(FALSE, "json", PyNone)],
          [kind |-> "ok_none"]}
    \cup {[kind |-> "rate_limit", msg |-> m] :
            m \in {"insufficient_quota", "You exceeded your current quota",
                   "QUOTA limit reached", "Rate limit reached for requests"}}
    \cup {[kind |-> "auth", msg |-> "Incorrect API key provided"],
          [kind |-> "error", msg |-> "Connection error"]}

\* the call raises a rate-limit error whose message names the quota
IsQuotaExhaustion(api) == api.kind = "rate_limit" /\ MentionsQuota(api.msg)

NotCalled == [kind |-> "not_called", val |-> PyNone]
\* no request was sent
NoApi == [kind |-> "none"]

-----------------------------------------------------------------------------
(* Records and chat-completion behaviours of the batch runs *)

PRecord1 ==
    <<Item("Question", Str("2+2?")), Item("Answer", Str("5")),
      Item("Question Type", Str("short"))>>
PRecord2 == <<Item("question", Str("3+3?")), Item("answer", Str("6"))>>
PRecord3 ==
    <<Item("Question", Str("1+1?")), Item("Answer", Str("2")),
      Item("Question Type", Num("3"))>>
PRecordPool == {PRecord1, PRecord3}

ApiValid ==
    [kind |-> "ok",
     content |-> Text(FALSE, "json",
                      Dict(<<Item("valid", PyTrue), Item("reason", Str("graded")),
                             Item("corrected_answer", PyNone),
                             Item("corrected_explanation", PyNone)>>))]
ApiCorrects ==
    [kind |-> "ok",
     content |-> Text(FALSE, "json",
                      Dict(<<Item("valid", PyFalse), Item("reason", Str("graded")),
                             Item("corrected_answer", Str("4")),
                             Item("corrected_explanation", Str("4 because 2+2"))>>))]
ApiQuota == [kind |-> "rate_limit", msg |-> "insufficient_quota"]
ApiScalar == [kind |-> "ok", content |-> Text(FALSE, "json", Num("42"))]
PApis == {ApiValid, ApiCorrects, ApiQuota}

\* what the task's request does; a task that sends none gets NoApi
TaskApis(record) ==
    IF MakesModelCall(RecordQuestionType(record)) THEN PApis ELSE {NoApi}

-----------------------------------------------------------------------------
(* Parallel Batch Runner: process_records_parallel                         *)
(*                                                                         *)
(* The calling thread submits one future per record, then collects them as *)
(* they complete; the executor's worker threads run the tasks.  pp is the  *)
(* calling thread's position:                                              *)
(*   "idle"      no call in progress                                       *)
(*   "submit"    in the dict comprehension that submits the futures        *)
(*   "collect"   in the as_completed loop                                  *)
(*   "cancel"    in the loop over f.cancel() of the except clause          *)
(*   "drain"     in the executor's __exit__ (shutdown(wait=True)) with an  *)
(*               exception pending                                         *)
(*   "returned", "raised"   back in the caller                             *)
(***************************************************************************)

\* records per direct call, and worker counts tried, in PSpec
MaxBatch == 3
MaxWorkers == 3

PRest ==
    /\ pp = "idle"
    /\ p_records = <<>>
    /\ max_workers = 0
    /\ fut = <<>>
    /\ task_api = <<>>
    /\ task_res = <<>>
    /\ results = <<>>
    /\ yielded = {}
    /\ cursor = 0
    /\ nthreads = 0
    /\ idle_sem = 0
    /\ p_exc = NoException

Running == {i \in 1..Len(fut) : fut[i] = "running"}
Pending == {i \in 1..Len(fut) : fut[i] = "pending"}
\* the tasks whose chat-completion request is outstanding
InFlight == {i \in Running : MakesModelCall(RecordQuestionType(p_records[i]))}

\* results = [None]*len(records); entering the with block
BeginCall(records, workers) ==
    /\ pp' = "submit"
    /\ p_records' = records
    /\ max_workers' = workers
    /\ fut' = <<>>
    /\ task_api' = <<>>
    /\ task_res' = <<>>
    /\ results' = [i \in 1..Len(records) |-> PyNone]
    /\ yielded' = {}
    /\ cursor' = 0
    /\ nthreads' = 0
    /\ idle_sem' = 0
    /\ p_exc' = NoException

\* the call has ended and its frame is gone
EndCall ==
    /\ pp' = "idle"
    /\ p_records' = <<>>
    /\ max_workers' = 0
    /\ fut' = <<>>
    /\ task_api' = <<>>
    /\ task_res' = <<>>
    /\ results' = <<>>
    /\ yielded' = {}
    /\ cursor' = 0
    /\ nthreads' = 0
    /\ idle_sem' = 0
    /\ p_exc' = NoException

\* executor.submit(validate_record, rec) for the next record: the work item
\* is queued; a thread is spawned unless one is counted idle or max_workers
\* threads exist.  After the last record the as_completed loop starts.
Submit ==
    /\ pp = "submit"
    /\ Len(fut) < Len(p_records)
    /\ fut' = Append(fut, "pending")
    /\ task_api' = Append(task_api, NoApi)
    /\ task_res' = Append(task_res, NotCalled)
    /\ IF idle_sem > 0
       THEN idle_sem' = idle_sem - 1 /\ nthreads' = nthreads
       ELSE /\ idle_sem' = idle_sem
            /\ nthreads' = IF nthreads < max_workers THEN nthreads + 1 ELSE nthreads
    /\ pp' = IF Len(fut) + 1 = Len(p_records) THEN "collect" ELSE "submit"
    /\ call' = "none"
    /\ UNCHANGED <<p_records, max_workers, results, yielded, cursor, p_exc>>
    /\ UNCHANGED <<vvars, avars>>

\* when records is empty the comprehension submits nothing
SubmitNone ==
    /\ pp = "submit"
    /\ Len(p_records) = 0
    /\ pp' = "collect"
    /\ call' = "none"
    /\ UNCHANGED <<p_records, max_workers, fut, task_api, task_res, results,
                   yielded, cursor, nthreads, idle_sem, p_exc>>
    /\ UNCHANGED <<vvars, avars>>

\* a free worker thread takes the oldest queued work item that was not
\* cancelled and starts validate_record on its record
CanStart(i) ==
    /\ i \in Pending
    /\ \A j \in 1..(i - 1) : j \notin Pending
    /\ Cardinality(Running) < nthreads

TaskStart(i) ==
    /\ pp \in {"submit", "collect", "cancel", "drain"}
    /\ CanStart(i)
    /\ fut' = [fut EXCEPT ![i] = "running"]
    /\ call' = IF MakesModelCall(RecordQuestionType(p_records[i]))
               THEN "validate" ELSE "none"
    /\ UNCHANGED <<pp, p_records, max_workers, task_api, task_res, results,
                   yielded, cursor, nthreads, idle_sem, p_exc>>
    /\ UNCHANGED <<vvars, avars>>

\* the task's validate_record call ends: the future holds its result or its
\* exception, and the worker counts itself idle
TaskFinish(i, api) ==
    /\ i \in Running
    /\ fut' = [fut EXCEPT ![i] = "done"]
    /\ task_api' = [task_api EXCEPT ![i] = api]
    /\ task_res' = [task_res EXCEPT ![i] = validate_record(p_records[i], api)]
    /\ idle_sem' = idle_sem + 1
    /\ call' = "none"
    /\ UNCHANGED <<pp, p_records, max_workers, results, yielded, cursor,
                   nthreads, p_exc>>
    /\ UNCHANGED <<vvars, avars>>

\* results[idx] = future.result()
StoreResult(res, idx, val) == [res EXCEPT ![idx] = val]

\* one turn of the as_completed loop on a finished future
Collect(i) ==
    /\ pp = "collect"
    /\ i \in 1..Len(fut)
    /\ fut[i] = "done"
    /\ i \notin yielded
    /\ yielded' = yielded \cup {i}
    /\ IF Returned(task_res[i])
       THEN /\ results' = StoreResult(results, i, task_res[i].val)
            /\ UNCHANGED <<pp, cursor, p_exc>>
       ELSE IF Raised(task_res[i], "QuotaExceededException")
       THEN /\ pp' = "cancel"
            /\ cursor' = 1
            /\ p_exc' = task_res[i]
            /\ UNCHANGED results
       ELSE /\ pp' = "drain"
            /\ p_exc' = task_res[i]
            /\ UNCHANGED <<results, cursor>>
    /\ call' = "none"
    /\ UNCHANGED <<p_records, max_workers, fut, task_api, task_res, nthreads, idle_sem>>
    /\ UNCHANGED <<vvars, avars>>

\* a cancel() that has no effect
CancelledStateKept(state) == state

\* f.cancel() on the next future: only a future not yet running is cancelled
CancelledState(state) == IF state = "pending" THEN "cancelled" ELSE state

CancelStep ==
    /\ pp = "cancel"
    /\ cursor <= Len(fut)
    /\ fut' = [fut EXCEPT ![cursor] = CancelledState(fut[cursor])]
    /\ cursor' = cursor + 1
    /\ pp' = IF cursor = Len(fut) THEN "drain" ELSE "cancel"
    /\ call' = "none"
    /\ UNCHANGED <<p_records, max_workers, task_api, task_res, results, yielded,
                   nthreads, idle_sem, p_exc>>
    /\ UNCHANGED <<vvars, avars>>

\* a shutdown that does not wait
ShutdownNoWait == TRUE

\* a shutdown that waits for the queue to empty, not for the running tasks
ShutdownLeavesRunning == Pending = {}

\* shutdown(wait=True) returns once the workers have emptied the queue and
\* ended their tasks
ShutdownDone == Running = {} /\ Pending = {}

\* all futures collected: leave the with block and return results
ExitReturn ==
    /\ pp = "collect"
    /\ yielded = 1..Len(p_records)
    /\ ShutdownDone
    /\ pp' = "returned"
    /\ call' = "none"
    /\ UNCHANGED <<p_records, max_workers, fut, task_api, task_res, results,
                   yielded, cursor, nthreads, idle_sem, p_exc>>
    /\ UNCHANGED <<vvars, avars>>

\* the pending exception leaves the with block once shutdown has waited
ExitRaise ==
    /\ pp = "drain"
    /\ ShutdownDone
    /\ pp' = "raised"
    /\ call' = "none"
    /\ UNCHANGED <<p_records, max_workers, fut, task_api, task_res, results,
                   yielded, cursor, nthreads, idle_sem, p_exc>>
    /\ UNCHANGED <<vvars, avars>>

-----------------------------------------------------------------------------
(* Translator: gpt_translate_text, one item of the record at a time *)

\* a strip() that removes nothing
StripStrNothing(t) == t

\* str.strip() on the field values the model uses
StripStr(t) ==
    CASE t = " " -> ""
      [] t = " 5 " -> "5"
      [] OTHER -> t

\* the model's translation of a text; the response pads it with white space
English(t) == "[en] " \o t
Completion(t) == [padded |-> TRUE, core |-> English(t)]
\* response.choices[0].message.content.strip()
StripCompletion(content) == Str(content.core)

\* the try block around the translation of _validation's reason: every
\* exception other than a quota rate-limit keeps the original text
TranslateReason(val_value, api) ==
    CASE api.kind = "ok" -> Return(StripCompletion(Completion(val_value.s)))
      [] api.kind = "rate_limit" /\ MentionsQuota(api.msg) ->
            Raise("QuotaExceededException", "Translation quota exceeded: " \o api.msg)
      [] OTHER -> Return(val_value)

\* the try block around the translation of a top-level string field: an
\* authentication error is raised as quota-exceeded
TranslateField(value, api) ==
    CASE api.kind = "ok" -> Return(StripCompletion(Completion(value.s)))
      [] api.kind = "rate_limit" /\ MentionsQuota(api.msg) ->
            Raise("QuotaExceededException", "Translation quota exceeded: " \o api.msg)
      [] api.kind = "auth" ->
            Raise("QuotaExceededException",
                  "Authentication error during translation: " \o api.msg)
      [] OTHER -> Return(value)

ReasonNeedsCall(val_key, val_value) ==
    val_key = "reason" /\ IsStr(val_value) /\ StripStr(val_value.s) # ""

\* a loop over _validation whose handlers do not keep the original reason:
\* a request that fails otherwise than by quota leaves the sub-key out
RECURSIVE TranslateValidationDropsFailed(_, _, _, _)
TranslateValidationDropsFailed(items, i, api, translated_validation) ==
    IF i > Len(items) THEN Return(Dict(translated_validation))
    ELSE IF ReasonNeedsCall(items[i].k, items[i].v)
         THEN IF ~Returned(TranslateReason(items[i].v, api))
              THEN TranslateReason(items[i].v, api)
              ELSE TranslateValidationDropsFailed(items, i + 1, api,
                       IF api.kind = "ok"
                       THEN Put(translated_validation, items[i].k,
                                TranslateReason(items[i].v, api).val)
                       ELSE translated_validation)
         ELSE TranslateValidationDropsFailed(items, i + 1, api,
                  Put(translated_validation, items[i].k, items[i].v))

\* the loop over the items of _validation
RECURSIVE TranslateValidation(_, _, _, _)
TranslateValidation(items, i, api, translated_validation) ==
    IF i > Len(items) THEN Return(Dict(translated_validation))
    ELSE IF ReasonNeedsCall(items[i].k, items[i].v)
         THEN IF Returned(TranslateReason(items[i].v, api))
              THEN TranslateValidation(items, i + 1, api,
                       Put(translated_validation, items[i].k,
                           TranslateReason(items[i].v, api).val))
              ELSE TranslateReason(items[i].v, api)
         ELSE TranslateValidation(items, i + 1, api,
                  Put(translated_validation, items[i].k, items[i].v))

\* whether the loop body for this item sends a chat-completion request
ItemNeedsCall(key, value) ==
    IF key = "_validation" /\ IsDict(value)
    THEN \E i \in 1..Len(value.items) :
            ReasonNeedsCall(value.items[i].k, value.items[i].v)
    ELSE /\ key # "explanation_status"
         /\ IsStr(value)
         /\ StripStr(value.s) # ""

\* a loop body without the explanation_status exemption
TranslateItemStatusToo(key, value, api) ==
    IF key = "_validation" /\ IsDict(value)
    THEN TranslateValidation(value.items, 1, api, <<>>)
    ELSE IF ~IsStr(value) \/ StripStr(value.s) = "" THEN Return(value)
    ELSE TranslateField(value, api)

\* one turn of the loop over text_record.items(): the value stored under key
TranslateItem(key, value, api) ==
    IF key = "_validation" /\ IsDict(value)
    THEN TranslateValidation(value.items, 1, api, <<>>)
    ELSE IF key = "explanation_status" THEN Return(value)
    ELSE IF ~IsStr(value) \/ StripStr(value.s) = "" THEN Return(value)
    ELSE TranslateField(value, api)

\* the loop over text_record.items(); apis[i] is what the request made for
\* item i does
RECURSIVE TranslateLoop(_, _, _, _)
TranslateLoop(items, i, apis, translated) ==
    IF i > Len(items) THEN Return(Dict(translated))
    ELSE IF Returned(TranslateItem(items[i].k, items[i].v, apis[i]))
         THEN TranslateLoop(items, i + 1, apis,
                  Put(translated, items[i].k,
                      TranslateItem(items[i].k, items[i].v, apis[i]).val))
         ELSE TranslateItem(items[i].k, items[i].v, apis[i])

gpt_translate_text(text_record, apis) == TranslateLoop(text_record, 1, apis, <<>>)

\* the items for which the call sends a chat-completion request: those that
\* need one and are reached before an exception leaves the function
RequestsSent(text_record, apis) ==
    {i \in 1..Len(text_record) :
        /\ ItemNeedsCall(text_record[i].k, text_record[i].v)
        /\ \A j \in 1..(i - 1) :
              Returned(TranslateItem(text_record[j].k, text_record[j].v, apis[j]))}

-----------------------------------------------------------------------------
(* Objects.  validate_record and gpt_translate_text are handed a reference  *)
(* to a dict; heap maps the name of each dict object to its items, and an  *)
(* item whose value is a dict holds a reference to that object.            *)

Ref(name) == [kind |-> "ref", s |-> name, items |-> <<>>]
IsRef(v) == v.kind = "ref"
NoObjects == <<>>

\* the value a reference stands for
Deref(h, v) == IF IsRef(v) THEN Dict(h[v.s]) ELSE v
DerefItems(h, items) == [i \in 1..Len(items) |-> Item(items[i].k, Deref(h, items[i].v))]

\* every dict stored in the object name is an object of its own
Intern(h, name) ==
    LET items == h[name]
        dicts == {i \in 1..Len(items) : IsDict(items[i].v)}
        Nested(i) == name \o "." \o items[i].k
    IN  [n \in DOMAIN h \cup {Nested(i) : i \in dicts} |->
            IF n = name
            THEN [i \in 1..Len(items) |->
                     IF i \in dicts THEN Item(items[i].k, Ref(Nested(i))) ELSE items[i]]
            ELSE IF \E i \in dicts : Nested(i) = n
            THEN items[CHOOSE i \in dicts : Nested(i) = n].v.items
            ELSE h[n]]

\* the objects of a record the caller holds
Load(record) == Intern("record" :> record, "record")

\* new_rec = record: the name is bound to the object itself
dict_alias(h, name, new) == [obj |-> name, heap |-> h]

\* record.copy(): a new dict with the same items; the values are shared
dict_copy(h, name, new) == [obj |-> new, heap |-> (new :> h[name]) @@ h]

\* translated_record = {}
dict_new(h, new) == [obj |-> new, heap |-> (new :> <<>>) @@ h]

\* validate_record on the object record: call_openai comes first, then the
\* copy, then the assignments to new_rec
validate_record_objects(h, record, api) ==
    LET rec == DerefItems(h, h[record])
        key_map == get_key_map_for_language(
                       DetectLanguage(rec, FALLBACK_KEYS["language"], 1))
        outcome == OutcomeOf(rec, api)
        new_rec == dict_copy(h, record, "new_rec")
    IN  IF ~Returned(outcome) THEN [heap |-> h, out |-> outcome]
        ELSE IF ~IsDict(outcome.val)
             THEN [heap |-> new_rec.heap,
                   out |-> Raise("AttributeError", "object has no attribute 'get'")]
        ELSE [heap |->
                 Intern([new_rec.heap EXCEPT ![new_rec.obj] =
                            IF Truthy(Get(outcome.val.items, "valid", PyFalse))
                            THEN ValidBranch(@, outcome.val.items)
                            ELSE InvalidBranch(@, key_map, outcome.val.items)],
                        new_rec.obj),
              out |-> Return(Ref(new_rec.obj))]

\* what gpt_translate_text reads of text_record: its items, and the items of
\* its _validation
TextRecordRead(h, text_record) ==
    [i \in 1..Len(h[text_record]) |->
        IF h[text_record][i].k = "_validation"
        THEN Item("_validation", Deref(h, h[text_record][i].v))
        ELSE h[text_record][i]]

\* gpt_translate_text on the object text_record: every assignment goes to
\* translated_record or translated_validation, both new; a value that is
\* kept is stored as it is, so a nested dict is shared with text_record
gpt_translate_text_objects(h, text_record, apis) ==
    LET out == gpt_translate_text(TextRecordRead(h, text_record), apis)
        target == dict_new(h, "translated_record")
    IN  IF ~Returned(out) THEN [heap |-> target.heap, out |-> out]
        ELSE [heap |->
                 Intern([target.heap EXCEPT ![target.obj] =
                            out.val.items],
                        target.obj),
              out |-> Return(Ref(target.obj))]

-----------------------------------------------------------------------------
(* The Streamlit script (app.py)                                           *)
(*                                                                         *)
(* Every interaction reruns the script from the top.  phase is where the   *)
(* current run is: "idle" (the run has ended or stopped and the page waits *)
(* for the user), "validating" (in the batch loop), "translating" (in the  *)
(* translation loop).  Interactions are taken while the page is idle.      *)
(***************************************************************************)

\* records of the uploaded list file
MaxRecords == 3
\* batch_size of the Start Processing handler (5 in app.py); the batch loop
\* is checked with smaller batches, and max_workers = batch_size as there
batch_size == 2

NoFile == [name |-> "", doc |-> "none", json |-> PyNone]

\* the five keys initialised to None at the top of the script
EmptySession ==
    [original_data |-> PyNone, processed_data |-> PyNone,
     processed_en_data |-> PyNone, last_uploaded_file |-> PyNone,
     quota_exceeded |-> PyNone]

NothingShown == [processed |-> PyNone, en |-> PyNone]
\* whether a quota halt has happened since the file was loaded, and the number
\* of records validated when it did
NotHalted == [on |-> FALSE, done |-> 0]

ARest(ph) ==
    /\ uploaded = NoFile
    /\ session_state = EmptySession
    /\ phase = ph
    /\ processed = <<>>
    /\ batch_i = 0
    /\ processed_en = <<>>
    /\ tr_i = 0
    /\ tr_k = 0
    /\ translated_record = <<>>
    /\ shown = NothingShown
    /\ halted = NotHalted

TRest == t_rec = <<>> /\ t_apis = <<>> /\ t_out = NotCalled
MRest == m_rec = <<>> /\ m_out = NotCalled
ORest == heap = NoObjects
VRest == v_rec = <<>> /\ v_api = NoApi /\ v_out = NotCalled /\ TRest /\ MRest /\ ORest

\* json.load(uploaded)
json_load(file) ==
    IF file.doc = "invalid" THEN Raise("JSONDecodeError", "Expecting value")
    ELSE Return(file.json)

\* lines 49-63: a file whose name differs from last_uploaded_file is loaded,
\* a single object becomes a one-element list, and the results and the quota
\* flag are reset; a file that does not parse changes nothing
NewUpload(ss, file) ==
    file.doc # "none" /\ Str(file.name) # ss.last_uploaded_file
UploadHandling(ss, file) ==
    IF NewUpload(ss, file) /\ Returned(json_load(file))
    THEN [original_data |-> IF IsDict(json_load(file).val)
                            THEN List(<<json_load(file).val>>)
                            ELSE json_load(file).val,
          processed_data |-> PyNone,
          processed_en_data |-> PyNone,
          quota_exceeded |-> PyNone,
          last_uploaded_file |-> Str(file.name)]
    ELSE ss

\* the quota gate left out of the script
QuotaGateMissing(ss) == FALSE

\* if st.session_state.get("quota_exceeded"): show the message and st.stop()
QuotaGate(ss) == Truthy(ss.quota_exceeded)

\* the Reset Session button: every key but original_data and
\* last_uploaded_file is set to None
ResetSession(ss) ==
    [key \in DOMAIN ss |->
        IF key \notin {"original_data", "last_uploaded_file"} THEN PyNone ELSE ss[key]]

\* lines 144-191: the results section shows processed_data, and offers the
\* English download when processed_en_data is there
Display(ss) ==
    IF Truthy(ss.processed_data)
    THEN [processed |-> ss.processed_data,
          en |-> IF Truthy(ss.processed_en_data) THEN ss.processed_en_data ELSE PyNone]
    ELSE NothingShown

\* r.get("_validation", {}).get(key, default)
ValidationGet(r, key, default) ==
    Get(Get(r.items, "_validation", Dict(<<>>)).items, key, default)

\* lines 150-165: the four numbers of the Processing Summary
Summary(records) ==
    [total |-> Len(records),
     valid |->
        Cardinality({i \in 1..Len(records) :
                        ValidationGet(records[i], "valid", PyNone) = PyTrue}),
     corrected |->
        Cardinality({i \in 1..Len(records) :
                        ValidationGet(records[i], "corrected", PyNone) = PyTrue}),
     failed |->
        Cardinality({i \in 1..Len(records) :
                        /\ ~Truthy(ValidationGet(records[i], "valid", PyFalse))
                        /\ ~Truthy(ValidationGet(records[i], "corrected", PyFalse))})]

\* the buttons the page of the last run offers
StartOffered == ~QuotaGate(session_state) /\ Truthy(session_state.original_data)
ResetOffered == QuotaGate(session_state)

\* the history of the latest quota halt, forgotten when a new file is loaded
HaltedAfterLoad(ss, file) ==
    IF NewUpload(ss, file) /\ Returned(json_load(file)) THEN NotHalted ELSE halted

\* the run is over: the locals of the handler are gone
EndRun ==
    /\ phase' = "idle"
    /\ processed' = <<>>
    /\ batch_i' = 0
    /\ processed_en' = <<>>
    /\ tr_i' = 0
    /\ tr_k' = 0
    /\ translated_record' = <<>>

\* the run stops at st.stop(): nothing below the quota message is rendered
StopRun(ss) ==
    /\ session_state' = ss
    /\ shown' = NothingShown
    /\ EndRun

\* the run reaches the end of the script
FinishRun(ss) ==
    /\ session_state' = ss
    /\ shown' = Display(ss)
    /\ EndRun

\* a run of the script in which Start Processing is not clicked
PlainRun(ss, file) ==
    IF QuotaGate(UploadHandling(ss, file))
    THEN StopRun(UploadHandling(ss, file))
    ELSE FinishRun(UploadHandling(ss, file))

\* original_data[i:i+batch_size] as the records handed to the batch runner
Batch(original_data, i) ==
    LET total == Len(original_data.items)
        last == IF i + batch_size < total THEN i + batch_size ELSE total
    IN  [k \in 1..(last - i) |-> original_data.items[i + k].items]

AppIdleFrame ==
    /\ UNCHANGED <<vvars, pvars>>
    /\ call' = "none"

\* the user puts a file into the uploader, or takes it out
Upload(file) ==
    /\ phase = "idle"
    /\ file # uploaded
    /\ uploaded' = file
    /\ halted' = HaltedAfterLoad(session_state, file)
    /\ PlainRun(session_state, file)
    /\ AppIdleFrame

\* any interaction that only reruns the script
Rerun ==
    /\ phase = "idle"
    /\ UNCHANGED <<uploaded, halted>>
    /\ PlainRun(session_state, uploaded)
    /\ AppIdleFrame

\* Reset Session is clicked: the keys are cleared and st.rerun() runs the
\* script again
ClickReset ==
    /\ phase = "idle"
    /\ ResetOffered
    /\ UNCHANGED <<uploaded, halted>>
    /\ PlainRun(ResetSession(UploadHandling(session_state, uploaded)), uploaded)
    /\ AppIdleFrame

\* Start Processing is clicked while results exist: only the info line
ClickStartProcessed ==
    /\ phase = "idle"
    /\ StartOffered
    /\ Truthy(session_state.processed_data)
    /\ UNCHANGED <<uploaded, halted>>
    /\ PlainRun(session_state, uploaded)
    /\ AppIdleFrame

\* Start Processing is clicked: the batch loop starts and the first batch
\* goes to process_records_parallel
ClickStart ==
    /\ phase = "idle"
    /\ StartOffered
    /\ ~Truthy(session_state.processed_data)
    /\ phase' = "validating"
    /\ processed' = <<>>
    /\ batch_i' = 0
    /\ BeginCall(Batch(session_state.original_data, 0), batch_size)
    /\ shown' = NothingShown
    /\ call' = "none"
    /\ UNCHANGED <<uploaded, session_state, halted, processed_en, tr_i, tr_k,
                   translated_record>>
    /\ UNCHANGED vvars

\* st.session_state["quota_exceeded"] = str(e); st.rerun(): the next run
\* stops at the quota gate
HaltRun(ss) ==
    /\ PlainRun(ss, uploaded)
    /\ halted' = [on |-> TRUE, done |-> Len(processed)]

\* process_records_parallel returned: processed.extend(batch_results); the
\* next batch is submitted, or the results are stored and translation starts
BatchReturned ==
    /\ phase = "validating"
    /\ pp = "returned"
    /\ processed' = processed \o results
    /\ IF batch_i + batch_size < Len(session_state.original_data.items)
       THEN /\ batch_i' = batch_i + batch_size
            /\ BeginCall(Batch(session_state.original_data, batch_i + batch_size),
                         batch_size)
            /\ UNCHANGED <<session_state, phase, tr_i, tr_k>>
       ELSE /\ session_state' =
                  [session_state EXCEPT !.processed_data = List(processed \o results)]
            /\ phase' = "translating"
            /\ tr_i' = 1
            /\ tr_k' = 1
            /\ EndCall
            /\ UNCHANGED batch_i
    /\ processed_en' = <<>>
    /\ translated_record' = <<>>
    /\ call' = "none"
    /\ UNCHANGED <<uploaded, shown, halted>>
    /\ UNCHANGED vvars

\* process_records_parallel raised quota-exceeded: the flag is set and
\* processed, the results of the earlier batches, is saved
BatchQuota ==
    /\ phase = "validating"
    /\ pp = "raised"
    /\ Raised(p_exc, "QuotaExceededException")
    /\ HaltRun([session_state EXCEPT !.quota_exceeded = Str(p_exc.msg),
                                     !.processed_data = List(processed)])
    /\ EndCall
    /\ call' = "none"
    /\ UNCHANGED uploaded
    /\ UNCHANGED vvars

\* process_records_parallel raised another exception: no handler of the
\* script catches it and the run ends there
BatchError ==
    /\ phase = "validating"
    /\ pp = "raised"
    /\ ~Raised(p_exc, "QuotaExceededException")
    /\ EndRun
    /\ shown' = NothingShown
    /\ EndCall
    /\ call' = "none"
    /\ UNCHANGED <<uploaded, session_state, halted>>
    /\ UNCHANGED vvars

\* what the translation requests of the session do
TrOk == [kind |-> "ok"]
ApiAuth == [kind |-> "auth", msg |-> "Incorrect API key provided"]
TrApis == {TrOk, ApiQuota, ApiAuth}
ItemApis(item) == IF ItemNeedsCall(item.k, item.v) THEN TrApis ELSE {NoApi}

CurrentRecord == processed[tr_i].items
CurrentItem == CurrentRecord[tr_k]

\* one turn of the loop over the items of gpt_translate_text(rec, "English"),
\* with what follows it in the handler: after the record's last item the
\* record is appended to processed_en, and after the last record
\* processed_en_data is stored and the run goes on to the results section;
\* on quota-exceeded the flag is set and the partial translations are saved
Translate(api) ==
    /\ phase = "translating"
    /\ call' = IF ItemNeedsCall(CurrentItem.k, CurrentItem.v) THEN "translate" ELSE "none"
    /\ LET r == TranslateItem(CurrentItem.k, CurrentItem.v, api)
           rec == Put(translated_record, CurrentItem.k, r.val)
       IN  IF ~Returned(r)
           THEN HaltRun([session_state EXCEPT
                            !.quota_exceeded = Str(r.msg),
                            !.processed_en_data = List(processed_en)])
           ELSE IF tr_k < Len(CurrentRecord)
           THEN /\ translated_record' = rec
                /\ tr_k' = tr_k + 1
                /\ UNCHANGED <<session_state, phase, shown, halted, processed,
                               batch_i, processed_en, tr_i>>
           ELSE IF tr_i < Len(processed)
           THEN /\ processed_en' = Append(processed_en, Dict(rec))
                /\ translated_record' = <<>>
                /\ tr_i' = tr_i + 1
                /\ tr_k' = 1
                /\ UNCHANGED <<session_state, phase, shown, halted, processed, batch_i>>
           ELSE /\ FinishRun([session_state EXCEPT
                                 !.processed_en_data =
                                     List(Append(processed_en, Dict(rec)))])
                /\ UNCHANGED halted
    /\ UNCHANGED uploaded
    /\ UNCHANGED <<vvars, pvars>>

TranslateNext ==
    /\ phase = "translating"
    /\ \E api \in ItemApis(CurrentItem) : Translate(api)

\* from chatbot_setup import ...: the module body ends with the key check,
\* and exit(1) ends the process when the check does not return a true value
ImportChatbotSetup(outcome) ==
    /\ phase = "import"
    /\ key_check' = outcome
    /\ phase' = IF ~Truthy(check_api_key_validity(outcome)) THEN "exited" ELSE "idle"
    /\ call' = "none"
    /\ UNCHANGED <<v_rec, v_api, v_out, tvars, mvars, heap>>
    /\ UNCHANGED pvars
    /\ UNCHANGED <<uploaded, session_state, processed, batch_i, processed_en,
                   tr_i, tr_k, translated_record, shown, halted>>

\* the files the user has at hand
SampleRecords ==
    [k \in 1..MaxRecords |-> Dict(IF k % 2 = 1 THEN PRecord1 ELSE PRecord2)]
FileList == [name |-> "a.json", doc |-> "list", json |-> List(SampleRecords)]
FileObject == [name |-> "b.json", doc |-> "dict", json |-> Dict(PRecord3)]
FileInvalid == [name |-> "bad.json", doc |-> "invalid", json |-> PyNone]
Files == {FileList, FileObject, FileInvalid}

\* the process starts: app.py is about to import chatbot_setup
Init ==
    /\ VRest
    /\ PRest
    /\ ARest("import")
    /\ key_check = "unchecked"
    /\ call = "none"

Next ==
    \/ \E outcome \in ModelsListOutcomes : ImportChatbotSetup(outcome)
    \/ \E file \in Files \cup {NoFile} : Upload(file)
    \/ Rerun
    \/ ClickReset
    \/ ClickStartProcessed
    \/ ClickStart
    \/ BatchReturned
    \/ BatchQuota
    \/ BatchError
    \/ TranslateNext
    \/ Submit
    \/ \E i \in 1..Len(fut) : TaskStart(i)
    \/ \E i \in 1..Len(fut) : \E api \in TaskApis(p_records[i]) : TaskFinish(i, api)
    \/ \E i \in 1..Len(fut) : Collect(i)
    \/ CancelStep
    \/ ExitReturn
    \/ ExitRaise

Spec == Init /\ [][Next]_vars

-----------------------------------------------------------------------------
(* validate_record applied to one record under one API behaviour *)

VInit ==
    /\ v_rec \in VRecords
    /\ v_api \in VApis
    /\ v_out = NotCalled
    /\ TRest
    /\ MRest
    /\ ORest
    /\ Imported
    /\ PRest
    /\ ARest("direct")
    /\ call = "none"

VCall ==
    /\ v_out = NotCalled
    /\ v_out' = validate_record(v_rec, v_api)
    /\ call' = IF MakesModelCall(RecordQuestionType(v_rec)) THEN "validate" ELSE "none"
    /\ UNCHANGED <<v_rec, v_api, tvars, mvars, key_check, heap>>
    /\ UNCHANGED <<pvars, avars>>

VNext == VCall

VSpec == VInit /\ [][VNext]_vars

-----------------------------------------------------------------------------
(* process_records_parallel called directly on a list of records *)

PBatches ==
    UNION {[1..n -> PRecordPool] : n \in 0..MaxBatch}

PInit ==
    /\ VRest
    /\ Imported
    /\ ARest("direct")
    /\ call = "none"
    /\ pp = "submit"
    /\ p_records \in PBatches
    /\ max_workers \in 1..MaxWorkers
    /\ fut = <<>>
    /\ task_api = <<>>
    /\ task_res = <<>>
    /\ results = [i \in 1..Len(p_records) |-> PyNone]
    /\ yielded = {}
    /\ cursor = 0
    /\ nthreads = 0
    /\ idle_sem = 0
    /\ p_exc = NoException

PNext ==
    \/ Submit
    \/ SubmitNone
    \/ \E i \in 1..Len(fut) : TaskStart(i)
    \/ \E i \in 1..Len(fut) : \E api \in TaskApis(p_records[i]) : TaskFinish(i, api)
    \/ \E i \in 1..Len(fut) : Collect(i)
    \/ CancelStep
    \/ ExitReturn
    \/ ExitRaise

PSpec == PInit /\ [][PNext]_vars

-----------------------------------------------------------------------------
(* gpt_translate_text applied to one record; the request of each item has *)
(* its own outcome                                                         *)

ApiRateLimit == [kind |-> "rate_limit", msg |-> "Rate limit reached for requests"]
ApiError == [kind |-> "error", msg |-> "Connection error"]
TApis == TrApis \cup {ApiRateLimit, ApiError}

TQuestionParts ==
    {<<Item("Question", Str("2+2?"))>>,
     <<Item("Question", Str(" "))>>,
     <<Item("Question", Str(""))>>}
TPlainParts ==
    {<<>>,
     <<Item("Grade", Num("7"))>>,
     <<Item("Answer", PyNone)>>,
     <<Item("Meta", Dict(<<Item("source", Str("exam"))>>))>>}
TStatusParts == {<<>>, <<Item("explanation_status", StatusCorrected)>>}
TValidationParts ==
    {<<>>,
     <<Item("_validation",
            Dict(<<Item("valid", PyFalse), Item("reason", Str("graded")),
                   Item("corrected", PyTrue)>>))>>,
     <<Item("_validation", Dict(<<Item("valid", PyTrue), Item("reason", Str(" "))>>))>>,
     <<Item("_validation", Dict(<<Item("valid", PyTrue), Item("reason", PyNone)>>))>>,
     <<Item("_validation", Str("note"))>>,
     <<Item("_validation", PyNone)>>}

TRecords ==
    {q \o n \o e \o v :
        q \in TQuestionParts, n \in TPlainParts, e \in TStatusParts,
        v \in TValidationParts}

TInit ==
    /\ v_rec = <<>> /\ v_api = NoApi /\ v_out = NotCalled
    /\ MRest
    /\ ORest
    /\ Imported
    /\ t_rec \in TRecords
    /\ t_apis \in [1..Len(t_rec) -> TApis]
    /\ t_out = NotCalled
    /\ PRest
    /\ ARest("direct")
    /\ call = "none"

TCall ==
    /\ t_out = NotCalled
    /\ t_out' = gpt_translate_text(t_rec, t_apis)
    /\ call' = IF RequestsSent(t_rec, t_apis) # {} THEN "translate" ELSE "none"
    /\ UNCHANGED <<v_rec, v_api, v_out, t_rec, t_apis, mvars, key_check, heap>>
    /\ UNCHANGED <<pvars, avars>>

TNext == TCall

TSpec == TInit /\ [][TNext]_vars

-----------------------------------------------------------------------------
(* map_record_fields applied to one record with the English key map *)

MQuestionParts ==
    {<<>>,
     <<Item("Question", Str("2+2?"))>>,
     <<Item("question", Str("2+2?"))>>,
     <<Item("Pregunta", Str("2+2?"))>>}
MAnswerParts ==
    {<<>>,
     <<Item("Answer", Str("5"))>>,
     <<Item(" ANSWER ", Str("5"))>>,
     <<Item("Answer", Str(""))>>,
     <<Item("Answer", Num("0"))>>,
     <<Item("Answer", Str("5")), Item("answer", Str("7"))>>,
     <<Item("answer", PyNone), Item("Answer", Str("5"))>>}
MTypeParts ==
    {<<>>,
     <<Item("Question Type", Str("short"))>>,
     <<Item("question type", Str("MCQ"))>>}
MOtherParts ==
    {<<>>,
     <<Item("Grade", Num("7"))>>,
     <<Item("Language", Str("Spanish")), Item("Note", Str("n"))>>}

MRecords ==
    {q \o a \o t \o o :
        q \in MQuestionParts, a \in MAnswerParts, t \in MTypeParts,
        o \in MOtherParts}

MInit ==
    /\ v_rec = <<>> /\ v_api = NoApi /\ v_out = NotCalled
    /\ TRest
    /\ ORest
    /\ Imported
    /\ m_rec \in MRecords
    /\ m_out = NotCalled
    /\ PRest
    /\ ARest("direct")
    /\ call = "none"

MCall ==
    /\ m_out = NotCalled
    /\ m_out' = Return(map_record_fields(m_rec, get_key_map_for_language(Str("English"))))
    /\ call' = "none"
    /\ UNCHANGED <<v_rec, v_api, v_out, tvars, m_rec, key_check, heap>>
    /\ UNCHANGED <<pvars, avars>>

MNext == MCall

MSpec == MInit /\ [][MNext]_vars

-----------------------------------------------------------------------------
(* One record as an object: validated, stored in processed_data, then      *)
(* translated, as the Start Processing handler does with a file of one     *)
(* record                                                                  *)

ORecordParts ==
    {<<>>,
     <<Item("Meta", Dict(<<Item("source", Str("exam"))>>))>>,
     <<Item("_validation",
            Dict(<<Item("valid", PyTrue), Item("reason", Str("checked by hand"))>>))>>,
     <<Item("Meta", Dict(<<Item("source", Str("exam"))>>)),
       Item("_validation",
            Dict(<<Item("valid", PyTrue), Item("reason", Str("checked by hand"))>>))>>}
ORecords ==
    {<<Item("Question", Str("2+2?")), Item("Answer", Str("5"))>> \o x :
        x \in ORecordParts}
OApis == {ApiValid, ApiCorrects, ApiQuota, ApiAuth, ApiScalar}

\* what the request of each item may do, for every item of the record
RECURSIVE OItemApis(_, _)
OItemApis(items, i) ==
    IF i > Len(items) THEN {<<>>}
    ELSE {<<api>> \o rest :
            api \in IF ItemNeedsCall(items[i].k, items[i].v) THEN TApis ELSE {NoApi},
            rest \in OItemApis(items, i + 1)}

OInit ==
    /\ v_rec \in ORecords
    /\ v_api \in OApis
    /\ v_out = NotCalled
    /\ heap = Load(v_rec)
    /\ TRest
    /\ MRest
    /\ Imported
    /\ PRest
    /\ ARest("direct")
    /\ call = "none"

\* batch_results = process_records_parallel(batch), processed.extend(...),
\* session_state["processed_data"] = processed; on quota-exceeded the flag
\* and the empty list are stored
OValidate ==
    /\ v_out = NotCalled
    /\ v_out' = validate_record(v_rec, v_api)
    /\ heap' = validate_record_objects(heap, "record", v_api).heap
    /\ call' = IF MakesModelCall(RecordQuestionType(v_rec)) THEN "validate" ELSE "none"
    /\ LET out == validate_record_objects(heap, "record", v_api).out
       IN  IF Returned(out)
           THEN /\ processed' = <<out.val>>
                /\ session_state' =
                      [session_state EXCEPT !.processed_data = List(<<out.val>>)]
           ELSE IF Raised(out, "QuotaExceededException")
           THEN /\ session_state' =
                      [session_state EXCEPT !.quota_exceeded = Str(out.msg),
                                            !.processed_data = List(processed)]
                /\ UNCHANGED processed
           ELSE UNCHANGED <<processed, session_state>>
    /\ UNCHANGED <<v_rec, v_api, tvars, mvars, key_check>>
    /\ UNCHANGED pvars
    /\ UNCHANGED <<uploaded, phase, batch_i, processed_en, tr_i, tr_k,
                   translated_record, shown, halted>>

\* translated_rec = gpt_translate_text(rec, "English") for the record in
\* processed, processed_en.append(translated_rec),
\* session_state["processed_en_data"] = processed_en; on quota-exceeded the
\* flag and the partial translations are stored
OTranslate(apis) ==
    /\ Returned(v_out)
    /\ t_out = NotCalled
    /\ t_rec' = DerefItems(heap, heap[processed[1].s])
    /\ t_apis' = apis
    /\ t_out' = gpt_translate_text(t_rec', apis)
    /\ heap' = gpt_translate_text_objects(heap, processed[1].s, apis).heap
    /\ call' = IF RequestsSent(t_rec', apis) # {} THEN "translate" ELSE "none"
    /\ LET out == gpt_translate_text_objects(heap, processed[1].s, apis).out
       IN  IF Returned(out)
           THEN /\ processed_en' = <<out.val>>
                /\ session_state' =
                      [session_state EXCEPT !.processed_en_data = List(<<out.val>>)]
           ELSE /\ session_state' =
                      [session_state EXCEPT !.quota_exceeded = Str(out.msg),
                                            !.processed_en_data = List(processed_en)]
                /\ UNCHANGED processed_en
    /\ UNCHANGED <<v_rec, v_api, v_out, mvars, key_check>>
    /\ UNCHANGED pvars
    /\ UNCHANGED <<uploaded, phase, processed, batch_i, tr_i, tr_k,
                   translated_record, shown, halted>>

ONext ==
    \/ OValidate
    \/ \E apis \in OItemApis(v_out.val.items, 1) : OTranslate(apis)

OSpec == OInit /\ [][ONext]_vars

-----------------------------------------------------------------------------
(* Claims about validate_record, checked under VSpec *)

Called == v_out # NotCalled
VOutcome == OutcomeOf(v_rec, v_api)
\* call_openai returned a JSON object to validate_record
GotOutcome == Called /\ Returned(VOutcome) /\ IsDict(VOutcome.val)
VResult == VOutcome.val.items
OutcomeValid == GotOutcome /\ Truthy(Get(VResult, "valid", PyFalse))
VCorrectedAnswer == Get(VResult, "corrected_answer", PyNone)
\* not valid, with a non-null, non-empty corrected_answer
OutcomeCorrects ==
    /\ GotOutcome
    /\ ~Truthy(Get(VResult, "valid", PyFalse))
    /\ VCorrectedAnswer \notin {PyNone, Str("")}
VOutRec == v_out.val.items
VOriginalAnswer == map_record_fields(v_rec, KEY_MAPS_English)["answer"]
\* the key under which the input held its answer ("Answer" when it held none)
VAnswerKey ==
    IF NormHas(v_rec, "answer") THEN v_rec[NormLast(v_rec, "answer")].k ELSE "Answer"
Statuses == {StatusCorrect, StatusCorrected, StatusExplOk}

\* C6: for every record (whatever its question type) and every call outcome
\* other than quota exhaustion, validate_record returns a record flagged
\* valid or invalid; quota-exceeded is the only exception it raises, and it is
\* raised only on quota exhaustion.
C6_OnlyQuotaEscapes ==
    Called =>
        IF IsQuotaExhaustion(v_api)
        THEN Raised(v_out, "QuotaExceededException")
        ELSE /\ Returned(v_out)
             /\ Get(Get(VOutRec, "_validation", PyNone).items, "valid", PyNone)
                    \in {PyTrue, PyFalse}

\* C7: when the model outcome is valid, the returned record holds every input
\* item unchanged and in place, except that _validation = {valid: true, reason}
\* and explanation_status = "Answer is correct." are added or overwritten.
C7_ValidKeepsInput ==
    OutcomeValid =>
        /\ Returned(v_out)
        /\ \A i \in 1..Len(v_rec) :
              v_rec[i].k \notin {"_validation", "explanation_status"}
                  => (i <= Len(VOutRec) /\ VOutRec[i] = v_rec[i])
        /\ Keys(VOutRec) = Keys(v_rec) \cup {"_validation", "explanation_status"}
        /\ Len(VOutRec) = Cardinality(Keys(VOutRec))
        /\ Get(VOutRec, "_validation", PyNone) =
              Dict(<<Item("valid", PyTrue),
                     Item("reason", Get(VResult, "reason", PyNone))>>)
        /\ Get(VOutRec, "explanation_status", PyNone) = StatusCorrect

\* C7 witness: a valid outcome that also carries a corrected_answer, for a
\* record holding an answer and an explanation, has been processed.
C7_Witness ==
    /\ OutcomeValid
    /\ Returned(v_out)
    /\ Has(v_rec, "Answer") /\ Has(v_rec, "Explanation")
    /\ Truthy(VCorrectedAnswer)

\* C8: when the outcome is not valid and carries a non-null, non-empty
\* corrected_answer, the returned record's answer field (under whatever key
\* the input held its answer) equals corrected_answer and differs from the
\* input's original answer.
C8_AnswerFieldCorrected ==
    OutcomeCorrects =>
        /\ Returned(v_out)
        /\ Get(VOutRec, VAnswerKey, PyNone) = VCorrectedAnswer
        /\ VCorrectedAnswer # VOriginalAnswer

\* C9: when the outcome is not valid and carries a non-empty corrected_answer,
\* the returned record has explanation_status "Answer corrected by AI." with
\* _validation.valid false and _validation.corrected true, with or without a
\* corrected_explanation.
C9_StatusCorrected ==
    OutcomeCorrects =>
        /\ Returned(v_out)
        /\ Get(VOutRec, "explanation_status", PyNone) = StatusCorrected
        /\ Get(Get(VOutRec, "_validation", PyNone).items, "valid", PyNone) = PyFalse
        /\ Get(Get(VOutRec, "_validation", PyNone).items, "corrected", PyNone) = PyTrue

\* C10: every record returned by validate_record carries an explanation_status
\* that is one of the three status texts.
C10_StatusInRange ==
    (Called /\ Returned(v_out)) =>
        /\ Has(VOutRec, "explanation_status")
        /\ Get(VOutRec, "explanation_status", PyNone) \in Statuses

VCorrectedExplanation == Get(VResult, "corrected_explanation", PyNone)
OutcomeInvalid == GotOutcome /\ ~Truthy(Get(VResult, "valid", PyFalse))
WritesAnswer == OutcomeInvalid /\ Truthy(VCorrectedAnswer)
WritesExplanation == OutcomeInvalid /\ Truthy(VCorrectedExplanation)
\* the record with another value in its language field
WithLanguage(record, lang) ==
    [i \in 1..Len(record) |->
        IF normalize_key(record[i].k) = "language"
        THEN Item(record[i].k, lang) ELSE record[i]]
LanguageValues == {Str("English"), Str("Spanish"), Str("Deutsch"), Num("7"), PyNone}
\* the result does not depend on the language field
LanguageIndependent ==
    \A lang \in LanguageValues :
        validate_record(WithLanguage(v_rec, lang), v_api) =
            IF Returned(v_out) THEN Return(Dict(WithLanguage(VOutRec, lang))) ELSE v_out
\* corrections are written under the keys "Answer" and "Explanation"
WritesEnglishKeys ==
    Returned(v_out) =>
        /\ WritesAnswer =>
              Has(VOutRec, "Answer") /\ Get(VOutRec, "Answer", PyNone) = VCorrectedAnswer
        /\ WritesExplanation =>
              /\ Has(VOutRec, "Explanation")
              /\ Get(VOutRec, "Explanation", PyNone) = VCorrectedExplanation
\* the input items under keys outside the given set are returned in place
KeepsKeysOutside(written) ==
    Returned(v_out) =>
        /\ \A i \in 1..Len(v_rec) :
              v_rec[i].k \notin written => (i <= Len(VOutRec) /\ VOutRec[i] = v_rec[i])

VStatusOut == Get(VOutRec, "explanation_status", Str("absent"))
\* validate_record assigned no explanation_status: the output holds what the
\* input held under that key, or nothing
StatusNotAssigned ==
    /\ Has(VOutRec, "explanation_status") <=> Has(v_rec, "explanation_status")
    /\ VStatusOut = Get(v_rec, "explanation_status", Str("absent"))

VValidation == Get(VOutRec, "_validation", PyNone)
VValid == Get(VValidation.items, "valid", PyNone)
\* _validation holds "corrected", and its value is True
CorrectedIsTrue ==
    Has(VValidation.items, "corrected")
        /\ Get(VValidation.items, "corrected", PyNone) = PyTrue
\* the model call ended in an authentication error, a rate-limit error that
\* does not name the quota, or another exception
CallFailed ==
    /\ MakesModelCall(RecordQuestionType(v_rec))
    /\ \/ v_api.kind \in {"auth", "error", "ok_none"}
       \/ v_api.kind = "rate_limit" /\ ~MentionsQuota(v_api.msg)
\* every item of the input is returned in place
NoFieldOverwritten ==
    \A i \in 1..Len(v_rec) : i <= Len(VOutRec) /\ VOutRec[i] = v_rec[i]

\* C21: in every record returned by validate_record, _validation is a mapping
\* whose "valid" is a boolean, and whose "corrected" is present and True
\* exactly when "valid" is False; this includes the records whose model call
\* failed and none of whose fields was overwritten.
C21_CorrectedIffNotValid ==
    (Called /\ Returned(v_out)) =>
        /\ IsDict(VValidation)
        /\ VValid \in {PyTrue, PyFalse}
        /\ CorrectedIsTrue <=> (VValid = PyFalse)
        /\ CallFailed => (VValid = PyFalse /\ CorrectedIsTrue)

\* C21 witness: a record whose model call failed with an authentication
\* error was returned with every input field in place, flagged not valid and
\* corrected.
C21_Witness ==
    /\ Called /\ Returned(v_out)
    /\ v_api.kind = "auth"
    /\ CallFailed
    /\ NoFieldOverwritten
    /\ VValid = PyFalse /\ CorrectedIsTrue

\* the numbers add up: every record is counted as valid or as corrected, and
\* none as failed
SummaryAddsUp(records) ==
    /\ Summary(records).total = Len(records)
    /\ Summary(records).valid + Summary(records).corrected = Summary(records).total
    /\ Summary(records).failed = 0
\* call outcomes of a second record: judged valid, corrected, and the three
\* failures call_openai turns into a result
OtherOutcomes == {ApiValid, ApiCorrects, ApiAuth, ApiRateLimit, ApiError}
\* the lists the validation phase can produce from the record and a second
\* record like it: the record returned, alone or next to the record returned
\* under another call outcome
ProcessedLists ==
    {<<>>, <<v_out.val>>}
    \cup {<<v_out.val, validate_record(v_rec, api).val>> :
            api \in {a \in OtherOutcomes : Returned(validate_record(v_rec, a))}}

\* C25: for every processed_data list the validation phase produces, the
\* summary counts satisfy valid + corrected = total and failed = 0, whatever
\* the outcomes of the model calls were, the calls that failed with an
\* authentication, rate-limit or other error included.
C25_SummaryAddsUp ==
    (Called /\ Returned(v_out)) =>
        \A records \in ProcessedLists : SummaryAddsUp(records)

\* C25 witness: the model call of the one record failed with a rate-limit
\* error that does not name the quota; the summary counts it as corrected.
C25_Witness ==
    /\ Called /\ Returned(v_out)
    /\ v_api.kind = "rate_limit"
    /\ CallFailed
    /\ Summary(<<v_out.val>>) = [total |-> 1, valid |-> 0, corrected |-> 1, failed |-> 0]

-----------------------------------------------------------------------------
(* Claims about process_records_parallel, checked under PSpec *)

CallEnded == pp \in {"returned", "raised"}
NoTaskRaisedQuota ==
    \A i \in 1..Len(fut) : ~Raised(task_res[i], "QuotaExceededException")
\* the list handed back holds, at each index, the result of that record's task
ResultsInOrder ==
    /\ Len(results) = Len(p_records)
    /\ \A i \in 1..Len(p_records) :
          /\ task_res[i] = validate_record(p_records[i], task_api[i])
          /\ Returned(task_res[i])
          /\ results[i] = task_res[i].val

\* C1: when no task raises quota-exceeded, the call returns a list of
\* len(records) elements whose element i is the validate_record result for
\* records[i], for every max_workers and every completion order.
C1_ReturnsAllResults ==
    (CallEnded /\ NoTaskRaisedQuota) => (pp = "returned" /\ ResultsInOrder)

\* whenever the call does return, its list is complete and in input order
ReturnedInOrder == pp = "returned" => ResultsInOrder

\* some task has raised quota-exceeded
SomeTaskRaisedQuota ==
    \E j \in 1..Len(fut) : Raised(task_res[j], "QuotaExceededException")
Cancelled == {i \in 1..Len(fut) : fut[i] = "cancelled"}

\* C19 (as stated): once some task has raised quota-exceeded, no task that
\* has not yet started starts.
C19_NoStartAfterQuotaRaised ==
    [][SomeTaskRaisedQuota =>
          \A i \in Pending : i <= Len(fut') => fut'[i] # "running"]_vars

\* C19 (amended): a task the calling thread has cancelled while it had not
\* started never starts and makes no model call, and once the cancel loop is
\* over no task is left that could still start; until the loop reaches it, a
\* queued task may start.
C19_CancelledNeverStarts ==
    /\ [](\A i \in Cancelled : task_api[i] = NoApi /\ task_res[i] = NotCalled)
    /\ []((pp \in {"drain", "raised"} /\ Raised(p_exc, "QuotaExceededException"))
             => Pending = {})
    /\ [][\A i \in Cancelled : i <= Len(fut') => fut'[i] = "cancelled"]_vars

\* C19 witness: with more records than workers, the call has raised
\* quota-exceeded and a task was cancelled before it started.
C19_Witness ==
    /\ pp = "raised"
    /\ Raised(p_exc, "QuotaExceededException")
    /\ Len(p_records) > max_workers
    /\ Cancelled # {}

\* the tasks that have ended or were cancelled before they started
Settled == {i \in 1..Len(fut) : fut[i] \in {"done", "cancelled"}}

\* C24: process_records_parallel neither returns nor raises to its caller
\* while a task it submitted is running or can still start; when
\* quota-exceeded reaches the caller every task has ended or was cancelled
\* unstarted, and from then on no task of the call starts and no validation
\* model call is made.
C24_CallerResumesAfterTasks ==
    /\ [](CallEnded =>
             /\ Running = {} /\ Pending = {} /\ InFlight = {}
             /\ Len(fut) = Len(p_records)
             /\ Settled = 1..Len(fut))
    /\ [](pp = "returned" => \A i \in 1..Len(fut) : fut[i] = "done")
    /\ [][CallEnded => (fut' = fut /\ task_res' = task_res /\ call' # "validate")]_vars

\* C24 witness: quota-exceeded has reached the caller of a call with at
\* least two workers; besides the task that raised it, another task ran to
\* its end without its result being collected.
C24_Witness ==
    /\ pp = "raised"
    /\ Raised(p_exc, "QuotaExceededException")
    /\ max_workers >= 2
    /\ \E i \in 1..Len(fut) :
          /\ fut[i] = "done"
          /\ i \notin yielded
          /\ Returned(task_res[i])
          /\ task_api[i] # NoApi

-----------------------------------------------------------------------------
(* Claims about the session, checked under Spec *)

QuotaFlagSet == Truthy(session_state.quota_exceeded)
HaltedPage == phase = "idle" /\ QuotaFlagSet

\* the step in which the handler catches quota-exceeded from a batch
CatchesBatchQuota ==
    /\ phase = "validating"
    /\ pp = "raised"
    /\ Raised(p_exc, "QuotaExceededException")
    /\ phase' = "idle"

\* C2: when a validation task raises quota-exceeded, the call raises it to
\* the handler, and the results of the tasks of that call that had completed
\* are, at their original indices, part of the partial results the handler
\* saves in processed_data.
C2_BatchResultsSaved ==
    [][CatchesBatchQuota =>
         \A i \in 1..Len(fut) :
            Returned(task_res[i]) =>
               /\ batch_i + i <= Len(session_state'.processed_data.items)
               /\ session_state'.processed_data.items[batch_i + i] = task_res[i].val]_vars

\* C3: once the handler has caught quota-exceeded and set the flag, no model
\* call is started while the flag is set: no batch is submitted, no
\* translation request is sent, and every run of the script stops before
\* the processing step.
\* (call names the model call made by the step that led to a state, so the
\* call whose quota signal set the flag is not one started under the flag.)
C3_NoCallAfterQuota ==
    /\ [](QuotaFlagSet =>
            /\ phase = "idle"
            /\ pp = "idle"
            /\ Running = {}
            /\ ~StartOffered)
    /\ [][QuotaFlagSet => call' = "none"]_vars

\* C3 witness: the page is halted by a quota signal of the first batch while
\* a later batch of the file was never submitted.
C3_Witness ==
    /\ HaltedPage
    /\ halted.on
    /\ halted.done = 0
    /\ Len(session_state.original_data.items) > batch_size

\* a new file is loaded by the step
LoadsNewFile ==
    NewUpload(session_state, uploaded') /\ Returned(json_load(uploaded'))

\* C4: after a quota halt the saved partial results stay retrievable: no
\* operation of the halted page other than loading a new file changes
\* processed_data or processed_en_data, and the page it leads to shows
\* processed_data in its results section.
C4_PartialResultsKept ==
    [][(HaltedPage /\ ~LoadsNewFile) =>
         /\ session_state'.processed_data = session_state.processed_data
         /\ session_state'.processed_en_data = session_state.processed_en_data
         /\ (Truthy(session_state.processed_data) =>
                shown'.processed = session_state.processed_data)]_vars

\* C5: when processing is restarted after a quota halt, no validation task
\* runs for a record that had been validated before the halt.
C5_NoRevalidation ==
    halted.on =>
        \A i \in 1..Len(fut) :
            fut[i] \in {"running", "done"} => batch_i + i > halted.done

\* C16: while the file in the uploader is not a valid JSON document, no run
\* of Start Processing is under way and no validation or translation call is
\* made, whatever was loaded earlier in the session.
C16_InvalidUploadBlocksProcessing ==
    uploaded.doc = "invalid" =>
        /\ phase = "idle"
        /\ pp = "idle"
        /\ Running = {}
        /\ call = "none"

\* a function of chatbot_setup is executing or has made a model call
ChatbotSetupInUse ==
    \/ phase \in {"validating", "translating"}
    \/ pp # "idle"
    \/ Running # {}
    \/ call # "none"

\* C17: when the key check does not succeed (authentication error, other
\* exception, empty response) the process has exited, and no function of
\* chatbot_setup is ever executed unless the check succeeded.
C17_ExitsBeforeProcessing ==
    /\ key_check \in {"empty", "auth", "error"} => phase = "exited"
    /\ phase = "exited" => ~ChatbotSetupInUse
    /\ ChatbotSetupInUse => key_check = "response"
    /\ key_check = "unchecked" => (phase = "import" /\ ~ChatbotSetupInUse)

\* C17 witness: the key check got an empty response and the process exited.
C17_Witness == key_check = "empty" /\ phase = "exited"

\* C20: at most max_workers validation calls are in flight; a call of the
\* batch runner is left, and so the next batch submitted, only when every task
\* of the batch has finished; in the translation phase no validation task is
\* alive, and a translation request is made only with no validation call in
\* flight (the requests of the sequential translation loop come one by one).
C20_BoundedConcurrency ==
    /\ [](/\ Cardinality(Running) <= max_workers
          /\ Cardinality(InFlight) <= max_workers
          /\ max_workers \in {0, batch_size})
    /\ [](pp \in {"idle", "returned", "raised"} => (Running = {} /\ Pending = {}))
    /\ [](phase = "translating" => (pp = "idle" /\ Running = {}))
    /\ [](call = "translate" => InFlight = {})
    /\ [][(pp # "submit" /\ pp' = "submit") => (Running = {} /\ Pending = {})]_vars
    /\ [][call' = "translate" => (InFlight = {} /\ phase = "translating")]_vars

\* C20 witness: as many validation calls as there are workers are in flight
\* at once.
C20_Witness ==
    /\ phase = "validating"
    /\ max_workers = batch_size
    /\ Cardinality(InFlight) = max_workers

-----------------------------------------------------------------------------
(* Claims about gpt_translate_text, checked under TSpec *)

TCalled == t_out # NotCalled
TSent == RequestsSent(t_rec, t_apis)
TOutRec == t_out.val.items
TIsValidation(i) == t_rec[i].k = "_validation" /\ IsDict(t_rec[i].v)
\* texts that are empty or hold white space only
BlankTexts == {"", " "}

\* C11: every translation request that ends in an authentication error, for
\* a top-level string field or for the reason of _validation, makes
\* gpt_translate_text raise quota-exceeded.
C11_AuthEscalated ==
    TCalled =>
        \A i \in TSent :
            t_apis[i] = ApiAuth => Raised(t_out, "QuotaExceededException")

\* C12: when gpt_translate_text returns, explanation_status and the valid and
\* corrected sub-fields of _validation hold exactly their input values.
C12_StatusFieldsKept ==
    (TCalled /\ Returned(t_out)) =>
        \A i \in 1..Len(t_rec) :
            /\ t_rec[i].k = "explanation_status" =>
                  /\ Has(TOutRec, "explanation_status")
                  /\ Get(TOutRec, "explanation_status", PyNone) = t_rec[i].v
            /\ TIsValidation(i) =>
                  /\ Has(TOutRec, "_validation")
                  /\ IsDict(Get(TOutRec, "_validation", PyNone))
                  /\ \A sub \in {"valid", "corrected"} :
                        /\ Has(Get(TOutRec, "_validation", PyNone).items, sub)
                              <=> Has(t_rec[i].v.items, sub)
                        /\ Get(Get(TOutRec, "_validation", PyNone).items, sub, PyNone)
                              = Get(t_rec[i].v.items, sub, PyNone)

\* C12 witness: a record with explanation_status and a _validation holding
\* valid and corrected was returned with its reason and question translated.
C12_Witness ==
    /\ TCalled /\ Returned(t_out)
    /\ Has(t_rec, "explanation_status")
    /\ \E i \in 1..Len(t_rec) :
          /\ TIsValidation(i)
          /\ Has(t_rec[i].v.items, "corrected")
          /\ Get(Get(TOutRec, "_validation", PyNone).items, "reason", PyNone)
                = Str(English("graded"))
    /\ Get(TOutRec, "Question", PyNone) = Str(English("2+2?"))

\* C13: for a top-level field whose value is not a string (and is not the
\* _validation mapping) or is an empty or white-space-only string, no request
\* is sent and the returned record holds the input value.
C13_PlainFieldsPassThrough ==
    TCalled =>
        \A i \in 1..Len(t_rec) :
            (/\ ~TIsValidation(i)
             /\ (~IsStr(t_rec[i].v) \/ t_rec[i].v.s \in BlankTexts)) =>
                /\ i \notin TSent
                /\ Returned(t_out) =>
                      /\ Has(TOutRec, t_rec[i].k)
                      /\ Get(TOutRec, t_rec[i].k, Str("absent")) = t_rec[i].v

\* C13 witness: a record with a white-space-only question, a null answer and
\* a string-valued _validation was returned, a request having been sent for
\* the _validation text only.
C13_Witness ==
    /\ TCalled /\ Returned(t_out)
    /\ Get(t_rec, "Question", PyNone) = Str(" ")
    /\ Has(t_rec, "Answer") /\ Get(t_rec, "Answer", Str("absent")) = PyNone
    /\ Get(TOutRec, "_validation", PyNone) = Str(English("note"))
    /\ Cardinality(TSent) = 1

\* the keys of a mapping in the order of its items
KeyOrder(items) == [i \in 1..Len(items) |-> items[i].k]
\* the request made for item i succeeded / failed without leaving the function
TSucceeded(i) == i \in TSent /\ t_apis[i].kind = "ok"
TDegraded(i) == i \in TSent /\ t_apis[i] \in {ApiRateLimit, ApiError, ApiAuth}

\* C22: when gpt_translate_text returns, the returned record has exactly the
\* keys of the input record, in the same order, and where the input holds a
\* _validation mapping the output holds a mapping with exactly its sub-keys,
\* in the same order, whichever requests succeeded or degraded.
C22_KeysAndOrderKept ==
    (TCalled /\ Returned(t_out)) =>
        /\ KeyOrder(TOutRec) = KeyOrder(t_rec)
        /\ \A i \in 1..Len(t_rec) :
              TIsValidation(i) =>
                  /\ IsDict(TOutRec[i].v)
                  /\ KeyOrder(TOutRec[i].v.items) = KeyOrder(t_rec[i].v.items)

\* C22 witness: a record of four fields whose question was translated and
\* whose validation reason could not be (the request failed and the original
\* was kept) was returned.
C22_Witness ==
    /\ TCalled /\ Returned(t_out)
    /\ Len(t_rec) = 4
    /\ TSucceeded(1)
    /\ TOutRec[1].v = Str(English("2+2?"))
    /\ TIsValidation(4)
    /\ TDegraded(4)
    /\ Has(t_rec[4].v.items, "reason")
    /\ TOutRec[4].v = t_rec[4].v

-----------------------------------------------------------------------------
(* Claims about map_record_fields, checked under MSpec *)

MCalled == m_out # NotCalled
\* the normalized spellings under which a canonical field is looked up
Spellings(f) ==
    {normalize_key(KEY_MAPS_English[f])}
        \cup {normalize_key(FALLBACK_KEYS[f][j]) : j \in 1..Len(FALLBACK_KEYS[f])}
\* the items of the record whose key normalizes to one of those spellings
Matches(f) == {i \in 1..Len(m_rec) : normalize_key(m_rec[i].k) \in Spellings(f)}

\* C15: the mapping has exactly the 11 canonical field names; a field's value
\* is the record's value under a key whose normalized form is the normalized
\* English label or a fallback spelling, and "" when the record has no such key.
C15_MapsCanonicalFields ==
    MCalled =>
        /\ DOMAIN m_out.val = CanonicalFields
        /\ Cardinality(DOMAIN m_out.val) = 11
        /\ \A f \in CanonicalFields :
              IF Matches(f) = {}
              THEN m_out.val[f] = Str("")
              ELSE \E i \in Matches(f) : m_out.val[f] = m_rec[i].v

\* C15 witness: a record whose only question key is "Pregunta", holding its
\* answer under " ANSWER ", was mapped: question "", answer found.
C15_Witness ==
    /\ MCalled
    /\ Has(m_rec, "Pregunta")
    /\ Has(m_rec, " ANSWER ")
    /\ m_out.val["question"] = Str("")
    /\ m_out.val["answer"] = Str("5")

-----------------------------------------------------------------------------
(* Claims about the record objects, checked under OSpec *)

\* the step is a call of validate_record / of gpt_translate_text
ValidateCalled == v_out = NotCalled /\ v_out' # NotCalled
TranslateCalled == t_out = NotCalled /\ t_out' # NotCalled
\* the objects that can be reached from the object name
Reach(h, name) ==
    {name} \cup {h[name][i].v.s : i \in {j \in 1..Len(h[name]) : IsRef(h[name][j].v)}}
\* the object and the dicts it holds have the items they had
ObjectKept(name) ==
    \A n \in Reach(heap, name) : n \in DOMAIN heap' /\ heap'[n] = heap[n]
\* the object-level and the value-level account of the two calls agree
ValuesAgree ==
    /\ (v_out # NotCalled /\ Returned(v_out)) =>
          DerefItems(heap, heap["new_rec"]) = v_out.val.items
    /\ (t_out # NotCalled /\ Returned(t_out)) =>
          DerefItems(heap, heap["translated_record"]) = t_out.val.items

\* C23: a call of validate_record leaves the record passed to it, and the
\* _validation mapping and any other dict it holds, with the keys and values
\* they had, whether the call returns or raises; so does a call of
\* gpt_translate_text, which also leaves processed_data and the records it
\* holds as they were.
C23_InputsNotChanged ==
    [][/\ ValidateCalled => ObjectKept("record")
       /\ TranslateCalled =>
             /\ ObjectKept(processed[1].s)
             /\ ObjectKept("record")
             /\ session_state'.processed_data = session_state.processed_data
             /\ processed' = processed]_vars

\* C23 witness: a record holding a _validation mapping and another dict was
\* corrected by validate_record and the result translated by
\* gpt_translate_text; the answer written and the texts translated are in
\* the new objects, the objects passed in hold what they held.
C23_Witness ==
    /\ v_out # NotCalled /\ Returned(v_out)
    /\ t_out # NotCalled /\ Returned(t_out)
    /\ ValuesAgree
    /\ Has(v_rec, "_validation") /\ Has(v_rec, "Meta")
    /\ heap["record"] = Load(v_rec)["record"]
    /\ heap["record._validation"] = Get(v_rec, "_validation", PyNone).items
    /\ Get(heap["new_rec"], "Answer", PyNone) = Str("4")
    /\ Get(heap["new_rec"], "_validation", PyNone) = Ref("new_rec._validation")
    /\ Get(heap["new_rec._validation"], "reason", PyNone) = Str("graded")
    /\ Get(heap["translated_record"], "Answer", PyNone) = Str(English("4"))
    /\ Get(heap["translated_record._validation"], "reason", PyNone)
          = Str(English("graded"))

====
